---- MODULE Spec2Model ----
(***************************************************************************)
(* Model of deep_learning_hand_gesture_model_quickstart.ipynb:             *)
(*   - batch():                 the mini-batch splitter                    *)
(*   - HandGestureNet.forward(): the network, at the level of tensor      *)
(*                              shapes and of the errors it raises         *)
(*   - get_accuracy(), train(): the training / evaluation loop            *)
(*   - load_data(), shuffle_dataset(), resize_sequences_length(),         *)
(*     preprocess_data(), convert_to_pytorch_tensors(): the data pipeline *)
(* Tensors are modelled by their rows (which sample each row is) and by    *)
(* their shapes; the floating point values are not modelled.               *)
(***************************************************************************)
EXTENDS Integers, Sequences, FiniteSets, TLC

VARIABLES
    \* ---- a call of batch(tensor, batch_size)
    b_tensor,        \* the argument tensor: its rows, in order
    b_batch_size,    \* the argument batch_size
    b_result,        \* the returned tensor_list
    b_pc,            \* "idle" | "called" | "returned"
    \* ---- a call of HandGestureNet.forward(input)
    f_net,           \* the network: [n_channels, n_classes]
    f_input,         \* shape of the input: <<batch_size, duration, channels>>
    f_result,        \* what the call did (see forward)
    f_pc,            \* "idle" | "called" | "returned" | "raised"
    \* ---- a call of train(model, criterion, optimizer, x_train, y_train,
    \*                      x_test, y_test, num_epochs)
    pc,              \* where train() is
    num_epochs,      \* the argument num_epochs
    x_train, y_train, x_test, y_test,     \* the argument tensors: their rows
    x_train_batches, y_train_batches,     \* the prepared mini-batches
    ep,              \* the epoch loop variable
    idx_batch,       \* the batch loop variable
    x_train_batch, y_train_batch,         \* the mini-batch being processed
    outputs,         \* shape of the last training forward pass
    loss,            \* loss of the batch being processed
    current_loss,    \* running total of the epoch
    train_acc, test_acc,                  \* accuracies of the epoch
    training,        \* model.training: TRUE in training mode, FALSE in evaluation mode
    grad,            \* the parameters' .grad: the backward passes accumulated in it
    params,          \* the parameters: the gradients applied to them, in order
    log,             \* the epoch records printed
    trace,           \* history: the operations train() performed, in order
    \* ---- the data pipeline: load_data, preprocess_data, convert_to_pytorch_tensors
    file,            \* the content of the pickle file
    final_length,    \* the argument final_length of resize_sequences_length
    dataset,         \* x_train, x_test, y_train_14, y_train_28, y_test_14, y_test_28
    p_pc             \* "idle" | "load" | "shuffle" | "resize" | "convert" | "ready" | "raised"

batch_vars   == <<b_tensor, b_batch_size, b_result, b_pc>>
forward_vars == <<f_net, f_input, f_result, f_pc>>
data_vars    == <<num_epochs, x_train, y_train, x_test, y_test>>
loop_vars    == <<x_train_batches, y_train_batches, ep, idx_batch,
                  x_train_batch, y_train_batch, outputs, loss, current_loss,
                  train_acc, test_acc>>
model_vars   == <<training, grad, params>>
train_vars   == <<pc, data_vars, loop_vars, model_vars, log, trace>>
pipeline_vars == <<file, final_length, dataset, p_pc>>
vars == <<batch_vars, forward_vars, train_vars, pipeline_vars>>

----------------------------------------------------------------------------
\* Bounds of the model

\* longest tensor handed to batch()
MaxLength == 100
\* largest batch_size handed to batch()
MaxBatchSize == 33
\* most slices batch() is made to return
MaxSlices == 12
\* largest batch dimension of an input of forward()
MaxBatch == 2
\* longest duration of an input of forward()
MaxDuration == 104
\* networks are built with 1..MaxChannels channels
MaxChannels == 3
\* largest training split handed to train()
MaxTrainSize == 65
\* largest test split handed to train()
MaxTestSize == 1
\* largest num_epochs handed to train()
MaxEpochs == 2
\* most recordings in a split of a file
MaxSplit == 2
\* longest sequence handed to resize_sequences_length
MaxSeqLength == 200
\* largest final_length handed to resize_sequences_length
MaxFinalLength == 104
\* bits of the significand of a float
MantissaBits == 20

\* Program constants
DefaultBatchSize == 32
DefaultClasses == 14
FineClasses == 28
FinalLength == 100
PooledLength == 12
HiddenWidth == 1936

Min(a, b) == IF a <= b THEN a ELSE b

----------------------------------------------------------------------------
\* Python slicing  tensor[lo:hi]  along the first dimension, 0 <= lo, 0 <= hi:
\* rows lo .. hi-1, the bounds clamped to the length.
Slice(tensor, lo, hi) ==
    LET l == Min(lo, Len(tensor))
        h == Min(hi, Len(tensor))
    IN  IF l >= h THEN << >> ELSE SubSeq(tensor, l + 1, h)

\* The body of the `while True` loop of batch(), from loop index i on.
RECURSIVE batch_loop(_, _, _, _)
batch_loop(tensor, batch_size, i, tensor_list) ==
    LET length == Len(tensor)
    IN  IF (i + 1) * batch_size >= length
        THEN Append(tensor_list, Slice(tensor, i * batch_size, length))
        ELSE batch_loop(tensor, batch_size, i + 1,
                        Append(tensor_list,
                               Slice(tensor, i * batch_size, (i + 1) * batch_size)))

\* A faulty splitter that drops the incomplete tail instead of appending it.
batch_drop_last(tensor, batch_size) ==
    [k \in 1..(Len(tensor) \div batch_size) |->
        Slice(tensor, (k - 1) * batch_size, k * batch_size)]

\* batch(tensor, batch_size): the list of mini-batches
batch(tensor, batch_size) == batch_loop(tensor, batch_size, 0, << >>)

\* A row of a tensor: which example of which split it is, and whether it is a
\* gesture sequence or a label.
Row(kind, split, i) == [kind |-> kind, split |-> split, row |-> i]
Tensor(kind, split, n) == [i \in 1..n |-> Row(kind, split, i)]

----------------------------------------------------------------------------
\* Shapes.  A shape is a tuple of dimensions; Err (the empty tuple) stands for
\* an exception raised by the layer.
Err == << >>
IsErr(s) == Len(s) = 0

Layer(op, cin, cout, k, p) == [op |-> op, cin |-> cin, cout |-> cout, k |-> k, p |-> p]
Conv1d(cin, cout, k, p) == Layer("Conv1d", cin, cout, k, p)
ReLU == Layer("ReLU", 0, 0, 0, 0)
Dropout == Layer("Dropout", 0, 0, 0, 0)
AvgPool1d(k) == Layer("AvgPool1d", 0, 0, k, 0)
Linear(cin, cout) == Layer("Linear", cin, cout, 0, 0)

\* torch.nn.Conv1d on (batch, channels, length): stride 1, zero padding p on
\* both sides.  Raises on a wrong channel count and on a kernel longer than
\* the padded input.
ApplyConv1d(l, s) ==
    IF s[2] # l.cin \/ s[3] + 2 * l.p < l.k
    THEN Err
    ELSE <<s[1], l.cout, s[3] + 2 * l.p - l.k + 1>>

\* A pooling that rounds the output length up (ceil_mode=True).
ApplyAvgPool1dCeil(l, s) ==
    IF s[3] < 1 THEN Err ELSE <<s[1], s[2], (s[3] + l.k - 1) \div l.k>>

\* torch.nn.AvgPool1d(k): stride k, no padding, floor mode.  Raises when the
\* output would be empty.
ApplyAvgPool1d(l, s) ==
    LET out == ((s[3] - l.k) \div l.k) + 1
    IN  IF out < 1 THEN Err ELSE <<s[1], s[2], out>>

\* torch.nn.Linear on (rows, in_features)
ApplyLinear(l, s) ==
    IF s[Len(s)] # l.cin THEN Err ELSE [s EXCEPT ![Len(s)] = l.cout]

ApplyLayer(l, s) ==
    CASE l.op = "Conv1d"    -> ApplyConv1d(l, s)
      [] l.op = "AvgPool1d" -> ApplyAvgPool1d(l, s)
      [] l.op = "Linear"    -> ApplyLinear(l, s)
      [] OTHER              -> s

\* torch.nn.Sequential: the layers in order; an exception ends the call.
RECURSIVE Sequential(_, _)
Sequential(layers, s) ==
    IF IsErr(s) \/ Len(layers) = 0
    THEN s
    ELSE Sequential(Tail(layers), ApplyLayer(Head(layers), s))

\* self.all_conv_high[channel], self.all_conv_low[channel],
\* self.all_residual[channel]: the same structure for every channel
all_conv_high ==
    << Conv1d(1, 8, 7, 3), ReLU, AvgPool1d(2),
       Conv1d(8, 4, 7, 3), ReLU, AvgPool1d(2),
       Conv1d(4, 4, 7, 3), ReLU, Dropout, AvgPool1d(2) >>

all_conv_low ==
    << Conv1d(1, 8, 3, 1), ReLU, AvgPool1d(2),
       Conv1d(8, 4, 3, 1), ReLU, AvgPool1d(2),
       Conv1d(4, 4, 3, 1), ReLU, Dropout, AvgPool1d(2) >>

all_residual == << AvgPool1d(2), AvgPool1d(2), AvgPool1d(2) >>

\* self.fc of a network built with n_channels and n_classes
fc(net) ==
    << Linear(9 * net.n_channels * PooledLength, HiddenWidth), ReLU,
       Linear(HiddenWidth, net.n_classes) >>

\* torch.cat(shapes, dim=1) of 3-dimensional tensors, shape by shape: the
\* other dimensions must agree; an empty list raises.
RECURSIVE CatInto(_, _)
CatInto(acc, shapes) ==
    IF Len(shapes) = 0 THEN acc
    ELSE IF Head(shapes)[1] # acc[1] \/ Head(shapes)[3] # acc[3] THEN Err
    ELSE CatInto(<<acc[1], acc[2] + Head(shapes)[2], acc[3]>>, Tail(shapes))

CatChannels(shapes) ==
    IF Len(shapes) = 0 THEN Err ELSE CatInto(Head(shapes), Tail(shapes))

\* tensor.view(-1, width): raises unless the number of elements is a
\* positive multiple of width (with no element the -1 is ambiguous).
View(s, width) ==
    LET numel == s[1] * s[2] * s[3]
    IN  IF numel = 0 \/ numel % width # 0 THEN Err ELSE <<numel \div width, width>>

\* torch.cat([high, low, ap_residual], dim=1) of one channel; a branch that
\* raised ends the call.
OutputChannel(high, low, ap_residual) ==
    [high |-> high, low |-> low, ap_residual |-> ap_residual,
     output_channel |->
        IF IsErr(high) \/ IsErr(low) \/ IsErr(ap_residual)
        THEN Err
        ELSE CatChannels(<<high, low, ap_residual>>)]

\* What one iteration of the channel loop of forward() yields for a channel
\* of shape (batch, 1, duration): the three branches and their concatenation.
Branches(input_channel) ==
    OutputChannel(Sequential(all_conv_high, input_channel),
                  Sequential(all_conv_low, input_channel),
                  Sequential(all_residual, input_channel))

\* The `for channel in range(0, self.n_channels)` loop of forward(), from
\* `channel` on.  input[:, :, channel] raises IndexError when the input has
\* no such channel.  `done` counts the channels whose branches were computed.
RECURSIVE channel_loop(_, _, _, _)
LoopEnd(raised, channel, all_features) ==
    [raised |-> raised, done |-> channel, all_features |-> all_features]

\* the end of one iteration: all_features.append(output_channel)
channel_append(net, input, channel, all_features, output_channel) ==
    IF IsErr(output_channel)
    THEN LoopEnd(TRUE, channel, all_features)
    ELSE channel_loop(net, input, channel + 1, Append(all_features, output_channel))

channel_loop(net, input, channel, all_features) ==
    IF channel = net.n_channels THEN LoopEnd(FALSE, channel, all_features)
    ELSE IF channel >= input[3] THEN LoopEnd(TRUE, channel, all_features)
    ELSE channel_append(net, input, channel, all_features,
                        Branches(<<input[1], 1, input[2]>>).output_channel)

\* the end of forward(): output = self.fc(all_features); return output
forward_fc(net, loop, cat, flat) ==
    [raised |-> IsErr(flat), done |-> loop.done, cat |-> cat, flat |-> flat,
     output |-> IF IsErr(flat) THEN Err ELSE Sequential(fc(net), flat)]

\* all_features = all_features.view(-1, 9 * self.n_channels * 12)
forward_view(net, loop, cat) ==
    forward_fc(net, loop, cat,
               IF IsErr(cat) THEN Err ELSE View(cat, 9 * net.n_channels * PooledLength))

\* all_features = torch.cat(all_features, dim=1)
forward_cat(net, loop) ==
    forward_view(net, loop,
                 IF loop.raised THEN Err ELSE CatChannels(loop.all_features))

\* HandGestureNet.forward(input) for an input of shape
\* (batch_size, duration, channels): whether it raised, the shape of the
\* returned output, and how far the computation went.
forward(net, input) == forward_cat(net, channel_loop(net, input, 0, << >>))

----------------------------------------------------------------------------
\* The state of the calls that a specification does not make
Finite(v) == [fin |-> TRUE, v |-> v]
NoAcc == [split |-> "none", params |-> 0, training |-> FALSE]
NoBatch == << >>
NoShape == << >>
NoDataset == << >>
NoResult == [raised |-> FALSE, output |-> Err, done |-> 0, cat |-> Err, flat |-> Err]

BatchIdle == b_tensor = << >> /\ b_batch_size = 1 /\ b_result = << >> /\ b_pc = "idle"
ForwardIdle ==
    /\ f_net = [n_channels |-> 1, n_classes |-> DefaultClasses]
    /\ f_input = <<0, 0, 0>>
    /\ f_result = NoResult
    /\ f_pc = "idle"

TrainIdle ==
    /\ pc = "idle"
    /\ num_epochs = 0
    /\ x_train = << >> /\ y_train = << >> /\ x_test = << >> /\ y_test = << >>
    /\ x_train_batches = << >> /\ y_train_batches = << >>
    /\ ep = 0 /\ idx_batch = 0
    /\ x_train_batch = NoBatch /\ y_train_batch = NoBatch
    /\ outputs = NoShape
    /\ loss = Finite(0) /\ current_loss = Finite(0)
    /\ train_acc = NoAcc /\ test_acc = NoAcc
    /\ training = TRUE
    /\ grad = << >> /\ params = << >>
    /\ log = << >> /\ trace = << >>

PipelineIdle ==
    /\ file = NoDataset
    /\ final_length = FinalLength
    /\ dataset = NoDataset
    /\ p_pc = "idle"

----------------------------------------------------------------------------
\* Specification of the calls of batch()

InitBatch ==
    /\ b_batch_size \in 1..MaxBatchSize
    /\ \E n \in 0..MaxLength :
         /\ n <= MaxSlices * b_batch_size
         /\ b_tensor = Tensor("seq", "train", n)
    /\ b_result = << >>
    /\ b_pc = "called"
    /\ ForwardIdle /\ TrainIdle /\ PipelineIdle

CallBatch ==
    /\ b_pc = "called"
    /\ b_result' = batch(b_tensor, b_batch_size)
    /\ b_pc' = "returned"
    /\ UNCHANGED <<b_tensor, b_batch_size, forward_vars, train_vars, pipeline_vars>>

NextBatchSpec == CallBatch

SpecBatch == InitBatch /\ [][NextBatchSpec]_vars

----------------------------------------------------------------------------
\* Specification of the calls of HandGestureNet.forward()

\* the networks: HandGestureNet(n_channels, n_classes)
Networks ==
    [n_channels : 1..MaxChannels,
     n_classes : {DefaultClasses, FineClasses}]

\* channel counts of the inputs fed to a network of n channels: none, one
\* too few, the right count, one too many
InputChannels(n) == {c \in 0..(n + 1) : c = 0 \/ c >= n - 1}

InitForward ==
    /\ f_net \in Networks
    /\ \E b \in 1..MaxBatch, t \in 0..MaxDuration, c \in InputChannels(f_net.n_channels) :
         f_input = <<b, t, c>>
    /\ f_result = NoResult
    /\ f_pc = "called"
    /\ BatchIdle /\ TrainIdle /\ PipelineIdle

\* One call of forward(): it returns an output or raises.
CallForward ==
    /\ f_pc = "called"
    /\ \E r \in {forward(f_net, f_input)} :
         /\ f_result' = r
         /\ f_pc' = IF r.raised THEN "raised" ELSE "returned"
    /\ UNCHANGED <<f_net, f_input, batch_vars, train_vars, pipeline_vars>>

NextForward == CallForward

SpecForward == InitForward /\ [][NextForward]_vars

----------------------------------------------------------------------------
\* Specification of the calls of train()

\* A loss value is Finite(v) or non-finite (inf, nan).
NonFinite == [fin |-> FALSE, v |-> 0]
\* float addition: a non-finite operand gives a non-finite sum
Add(a, b) == IF a.fin /\ b.fin THEN Finite(a.v + b.v) ELSE NonFinite
\* the values loss.item() may have for the batch being processed: inf or
\* nan, or a finite value; the finite value is unlike that of any other batch
\* of the run, and such that a sum tells which values were added
LossValues ==
    {Finite(2 ^ (ep * Len(x_train_batches) + idx_batch)), NonFinite}

\* The network train() is run on, and the shape of one gesture of its data
\* (preprocess_data resizes every sequence to final_length=100).
TrainNet == [n_channels |-> MaxChannels, n_classes |-> DefaultClasses]
InputShape(rows) == <<Len(rows), FinalLength, TrainNet.n_channels>>

\* training splits: sizes around the multiples of the batch size
TrainSizes == {n \in 0..MaxTrainSize : n % DefaultBatchSize <= 1}

\* The split that the rows of a tensor come from: "none" for no row, "mixed"
\* for rows of several splits.
SplitOf(rows) ==
    IF Len(rows) = 0 THEN "none"
    ELSE IF \A i \in 1..Len(rows) : rows[i].split = rows[1].split THEN rows[1].split
    ELSE "mixed"

\* a gradient left in .grad by whatever ran before train()
Stale == [ep |-> -1, idx_batch |-> -1, split |-> "stale"]

\* One operation of train(): the epoch and batch it belongs to, the split it
\* reads, the mode of the model and whether autograd records it (it does not
\* under torch.no_grad()), and the value of the variable loss (for a loss
\* step the loss just computed; fin tells whether it is finite).
Event(op, split) ==
    [op |-> op, ep |-> ep, idx_batch |-> idx_batch, split |-> split,
     training |-> training, grad_enabled |-> TRUE, fin |-> TRUE, loss |-> loss]

InitTrain ==
    /\ pc = "prepare"
    /\ num_epochs \in 0..MaxEpochs
    /\ \E n \in TrainSizes :
         /\ x_train = Tensor("seq", "train", n)
         /\ y_train = Tensor("label", "train", n)
    /\ \E n \in 0..MaxTestSize :
         /\ x_test = Tensor("seq", "test", n)
         /\ y_test = Tensor("label", "test", n)
    /\ x_train_batches = << >> /\ y_train_batches = << >>
    /\ ep = 0 /\ idx_batch = 0
    /\ x_train_batch = NoBatch /\ y_train_batch = NoBatch
    /\ outputs = NoShape
    /\ loss = Finite(0) /\ current_loss = Finite(0)
    /\ train_acc = NoAcc /\ test_acc = NoAcc
    /\ training \in BOOLEAN
    /\ grad \in {<< >>, <<Stale>>}
    /\ params = << >>
    /\ log = << >> /\ trace = << >>
    /\ BatchIdle /\ ForwardIdle /\ PipelineIdle

\* A faulty preparation that splits the labels with another batch size.
TrainPrepareOtherSize ==
    /\ pc = "prepare"
    /\ x_train_batches' = batch(x_train, DefaultBatchSize)
    /\ y_train_batches' = batch(y_train, DefaultBatchSize + 1)
    /\ ep' = 0
    /\ pc' = "epoch"
    /\ UNCHANGED <<data_vars, idx_batch, x_train_batch, y_train_batch, outputs,
                   loss, current_loss, train_acc, test_acc, model_vars, log, trace,
                   batch_vars, forward_vars, pipeline_vars>>

\* A faulty preparation that takes the label batches from the test labels.
TrainPrepareLeaksTest ==
    /\ pc = "prepare"
    /\ x_train_batches' = batch(x_train, DefaultBatchSize)
    /\ y_train_batches' = batch(y_test, DefaultBatchSize)
    /\ ep' = 0
    /\ pc' = "epoch"
    /\ UNCHANGED <<data_vars, idx_batch, x_train_batch, y_train_batch, outputs,
                   loss, current_loss, train_acc, test_acc, model_vars, log, trace,
                   batch_vars, forward_vars, pipeline_vars>>

\* x_train_batches = batch(x_train); y_train_batches = batch(y_train)
TrainPrepare ==
    /\ pc = "prepare"
    /\ x_train_batches' = batch(x_train, DefaultBatchSize)
    /\ y_train_batches' = batch(y_train, DefaultBatchSize)
    /\ ep' = 0
    /\ pc' = "epoch"
    /\ UNCHANGED <<data_vars, idx_batch, x_train_batch, y_train_batch, outputs,
                   loss, current_loss, train_acc, test_acc, model_vars, log, trace,
                   batch_vars, forward_vars, pipeline_vars>>

\* A faulty epoch start that does not call model.train().
EpochStartNoTrainMode ==
    /\ pc = "epoch"
    /\ ep < num_epochs
    /\ current_loss' = Finite(0)
    /\ idx_batch' = 0
    /\ trace' = Append(trace, Event("epoch", "none"))
    /\ pc' = "batch"
    /\ UNCHANGED <<data_vars, x_train_batches, y_train_batches, ep,
                   x_train_batch, y_train_batch, outputs, loss, train_acc, test_acc,
                   model_vars, log, batch_vars, forward_vars, pipeline_vars>>

\* A faulty epoch start that keeps the running total of the previous epoch.
EpochStartNoReset ==
    /\ pc = "epoch"
    /\ ep < num_epochs
    /\ training' = TRUE
    /\ idx_batch' = 0
    /\ trace' = Append(trace, [Event("epoch", "none") EXCEPT !.training = TRUE])
    /\ pc' = "batch"
    /\ UNCHANGED <<data_vars, x_train_batches, y_train_batches, ep,
                   x_train_batch, y_train_batch, outputs, loss, current_loss,
                   train_acc, test_acc, grad, params, log, batch_vars,
                   forward_vars, pipeline_vars>>

\* for ep in range(num_epochs): model.train(); current_loss = 0.0
EpochStart ==
    /\ pc = "epoch"
    /\ ep < num_epochs
    /\ training' = TRUE
    /\ current_loss' = Finite(0)
    /\ idx_batch' = 0
    /\ trace' = Append(trace, [Event("epoch", "none") EXCEPT !.training = TRUE])
    /\ pc' = "batch"
    /\ UNCHANGED <<data_vars, x_train_batches, y_train_batches, ep,
                   x_train_batch, y_train_batch, outputs, loss, train_acc, test_acc,
                   grad, params, log, batch_vars, forward_vars, pipeline_vars>>

\* the epoch loop is exhausted: train() prints the total time and returns
TrainFinish ==
    /\ pc = "epoch"
    /\ ep >= num_epochs
    /\ pc' = "done"
    /\ UNCHANGED <<data_vars, loop_vars, model_vars, log, trace,
                   batch_vars, forward_vars, pipeline_vars>>

\* enumerate(zip(x_train_batches, y_train_batches)) yields the next pair
NextBatch ==
    /\ pc = "batch"
    /\ idx_batch < Min(Len(x_train_batches), Len(y_train_batches))
    /\ x_train_batch' = x_train_batches[idx_batch + 1]
    /\ y_train_batch' = y_train_batches[idx_batch + 1]
    /\ pc' = "zero_grad"
    /\ UNCHANGED <<data_vars, x_train_batches, y_train_batches, ep, idx_batch,
                   outputs, loss, current_loss, train_acc, test_acc, model_vars,
                   log, trace, batch_vars, forward_vars, pipeline_vars>>

\* zip() is exhausted: the batch loop ends
BatchesExhausted ==
    /\ pc = "batch"
    /\ idx_batch >= Min(Len(x_train_batches), Len(y_train_batches))
    /\ pc' = "train_acc"
    /\ UNCHANGED <<data_vars, loop_vars, model_vars, log, trace,
                   batch_vars, forward_vars, pipeline_vars>>

\* A faulty step that leaves the gradients of the previous backward in place.
ZeroGradSkipped ==
    /\ pc = "zero_grad"
    /\ trace' = Append(trace, Event("zero_grad", "train"))
    /\ pc' = "forward"
    /\ UNCHANGED <<data_vars, loop_vars, model_vars, log, batch_vars, forward_vars, pipeline_vars>>

\* optimizer.zero_grad()
ZeroGrad ==
    /\ pc = "zero_grad"
    /\ grad' = << >>
    /\ trace' = Append(trace, Event("zero_grad", "train"))
    /\ pc' = "forward"
    /\ UNCHANGED <<data_vars, loop_vars, training, params, log,
                   batch_vars, forward_vars, pipeline_vars>>

\* outputs = model(x_train_batch)
ForwardBatch ==
    /\ pc = "forward"
    /\ \E r \in {forward(TrainNet, InputShape(x_train_batch))} :
         /\ outputs' = r.output
         /\ pc' = IF r.raised THEN "raised" ELSE "loss"
    /\ trace' = Append(trace, Event("forward", SplitOf(x_train_batch)))
    /\ UNCHANGED <<data_vars, x_train_batches, y_train_batches, ep, idx_batch,
                   x_train_batch, y_train_batch, loss, current_loss, train_acc,
                   test_acc, model_vars, log, batch_vars, forward_vars, pipeline_vars>>

\* A faulty loss step that skips the rest of the batch when the loss is not
\* finite.
ComputeLossSkipNonFinite ==
    /\ pc = "loss"
    /\ outputs[1] = Len(y_train_batch)
    /\ \E l \in LossValues :
         /\ loss' = l
         /\ trace' = Append(trace, [Event("loss", SplitOf(y_train_batch)) EXCEPT !.fin = l.fin, !.loss = l])
         /\ pc' = IF l.fin THEN "backward" ELSE "batch"
         /\ idx_batch' = IF l.fin THEN idx_batch ELSE idx_batch + 1
    /\ UNCHANGED <<data_vars, x_train_batches, y_train_batches, ep,
                   x_train_batch, y_train_batch, outputs, current_loss, train_acc,
                   test_acc, model_vars, log, batch_vars, forward_vars, pipeline_vars>>

\* loss = criterion(outputs, y_train_batch): cross-entropy of the rows of
\* outputs against the labels at the same positions; raises when the two
\* batch sizes differ.  Its value is any loss value.
ComputeLoss ==
    /\ pc = "loss"
    /\ IF outputs[1] # Len(y_train_batch)
       THEN /\ pc' = "raised"
            /\ UNCHANGED <<loss, trace>>
       ELSE \E l \in LossValues :
              /\ loss' = l
              /\ trace' = Append(trace, [Event("loss", SplitOf(y_train_batch)) EXCEPT !.fin = l.fin, !.loss = l])
              /\ pc' = "backward"
    /\ UNCHANGED <<data_vars, x_train_batches, y_train_batches, ep, idx_batch,
                   x_train_batch, y_train_batch, outputs, current_loss, train_acc,
                   test_acc, model_vars, log, batch_vars, forward_vars, pipeline_vars>>

\* loss.backward(): adds to .grad the gradient of this batch's loss, which
\* was computed from x_train_batch (through outputs) and y_train_batch
Backward ==
    /\ pc = "backward"
    /\ grad' = Append(grad, [ep |-> ep, idx_batch |-> idx_batch,
                             split |-> SplitOf(x_train_batch \o y_train_batch)])
    /\ trace' = Append(trace, Event("backward", SplitOf(x_train_batch \o y_train_batch)))
    /\ pc' = "step"
    /\ UNCHANGED <<data_vars, loop_vars, training, params, log,
                   batch_vars, forward_vars, pipeline_vars>>

\* optimizer.step(): one update of the parameters from .grad
OptimizerStep ==
    /\ pc = "step"
    /\ params' = Append(params, grad)
    /\ trace' = Append(trace, Event("step", "train"))
    /\ pc' = "accumulate"
    /\ UNCHANGED <<data_vars, loop_vars, training, grad, log,
                   batch_vars, forward_vars, pipeline_vars>>

\* current_loss += loss.item(); the batch loop goes on
Accumulate ==
    /\ pc = "accumulate"
    /\ current_loss' = Add(current_loss, loss)
    /\ trace' = Append(trace, Event("accumulate", "train"))
    /\ idx_batch' = idx_batch + 1
    /\ pc' = "batch"
    /\ UNCHANGED <<data_vars, x_train_batches, y_train_batches, ep,
                   x_train_batch, y_train_batch, outputs, loss, train_acc, test_acc,
                   model_vars, log, batch_vars, forward_vars, pipeline_vars>>

\* The end of get_accuracy: the comparison of the predictions with y_ref
\* (raises when the two lengths differ and neither is 1) and the division by
\* y_ref.shape[0] (raises on an empty y_ref).
accuracy_of(predicted, y_ref, split) ==
    [raised |-> \/ predicted.raised
                \/ Len(y_ref) = 0
                \/ (/\ predicted.output[1] # Len(y_ref)
                    /\ predicted.output[1] # 1
                    /\ Len(y_ref) # 1),
     acc |-> [split |-> split, params |-> Len(params), training |-> FALSE]]

\* get_accuracy(model, x, y_ref) after its model.eval(): the forward pass on
\* the whole of x under torch.no_grad(), then the accuracy.
get_accuracy(x, y_ref, split) ==
    accuracy_of(forward(TrainNet, InputShape(x)), y_ref, split)

\* A faulty evaluation that puts the model back into the mode it was in.
TrainAccuracyRestoresMode ==
    /\ pc = "train_acc"
    /\ \E r \in {get_accuracy(x_train, y_train, SplitOf(x_train \o y_train))} :
         /\ train_acc' = IF r.raised THEN train_acc ELSE r.acc
         /\ pc' = IF r.raised THEN "raised" ELSE "test_acc"
    /\ trace' = Append(trace, [Event("get_accuracy", SplitOf(x_train \o y_train))
                                  EXCEPT !.training = FALSE, !.grad_enabled = FALSE])
    /\ UNCHANGED <<data_vars, x_train_batches, y_train_batches, ep, idx_batch,
                   x_train_batch, y_train_batch, outputs, loss, current_loss,
                   test_acc, model_vars, log, batch_vars, forward_vars, pipeline_vars>>

\* train_acc = get_accuracy(model, x_train, y_train)
TrainAccuracy ==
    /\ pc = "train_acc"
    /\ training' = FALSE
    /\ \E r \in {get_accuracy(x_train, y_train, SplitOf(x_train \o y_train))} :
         /\ train_acc' = IF r.raised THEN train_acc ELSE r.acc
         /\ pc' = IF r.raised THEN "raised" ELSE "test_acc"
    /\ trace' = Append(trace, [Event("get_accuracy", SplitOf(x_train \o y_train))
                                  EXCEPT !.training = FALSE, !.grad_enabled = FALSE])
    /\ UNCHANGED <<data_vars, x_train_batches, y_train_batches, ep, idx_batch,
                   x_train_batch, y_train_batch, outputs, loss, current_loss,
                   test_acc, grad, params, log, batch_vars, forward_vars, pipeline_vars>>

\* A faulty evaluation that clears the gradients (model.zero_grad()) before
\* its forward pass.
TestAccuracyZeroesGrad ==
    /\ pc = "test_acc"
    /\ training' = FALSE
    /\ grad' = << >>
    /\ \E r \in {get_accuracy(x_test, y_test, SplitOf(x_test \o y_test))} :
         /\ test_acc' = IF r.raised THEN test_acc ELSE r.acc
         /\ pc' = IF r.raised THEN "raised" ELSE "log"
    /\ trace' = Append(trace, [Event("get_accuracy", SplitOf(x_test \o y_test))
                                  EXCEPT !.training = FALSE, !.grad_enabled = FALSE])
    /\ UNCHANGED <<data_vars, x_train_batches, y_train_batches, ep, idx_batch,
                   x_train_batch, y_train_batch, outputs, loss, current_loss,
                   train_acc, params, log, batch_vars, forward_vars, pipeline_vars>>

\* test_acc = get_accuracy(model, x_test, y_test)
TestAccuracy ==
    /\ pc = "test_acc"
    /\ training' = FALSE
    /\ \E r \in {get_accuracy(x_test, y_test, SplitOf(x_test \o y_test))} :
         /\ test_acc' = IF r.raised THEN test_acc ELSE r.acc
         /\ pc' = IF r.raised THEN "raised" ELSE "log"
    /\ trace' = Append(trace, [Event("get_accuracy", SplitOf(x_test \o y_test))
                                  EXCEPT !.training = FALSE, !.grad_enabled = FALSE])
    /\ UNCHANGED <<data_vars, x_train_batches, y_train_batches, ep, idx_batch,
                   x_train_batch, y_train_batch, outputs, loss, current_loss,
                   train_acc, grad, params, log, batch_vars, forward_vars, pipeline_vars>>

\* writer.add_scalar(...) twice and the print of the epoch record; the epoch
\* loop goes on
LogEpoch ==
    /\ pc = "log"
    /\ log' = Append(log, [ep |-> ep + 1, loss |-> current_loss,
                           train_acc |-> train_acc, test_acc |-> test_acc])
    /\ trace' = Append(trace, Event("log", "none"))
    /\ ep' = ep + 1
    /\ pc' = "epoch"
    /\ UNCHANGED <<data_vars, x_train_batches, y_train_batches, idx_batch,
                   x_train_batch, y_train_batch, outputs, loss, current_loss,
                   train_acc, test_acc, model_vars, batch_vars, forward_vars, pipeline_vars>>

NextTrain ==
    \/ TrainPrepare
    \/ EpochStart
    \/ TrainFinish
    \/ NextBatch
    \/ BatchesExhausted
    \/ ZeroGrad
    \/ ForwardBatch
    \/ ComputeLoss
    \/ Backward
    \/ OptimizerStep
    \/ Accumulate
    \/ TrainAccuracy
    \/ TestAccuracy
    \/ LogEpoch

SpecTrain == InitTrain /\ [][NextTrain]_vars

\* The positions of train(), and a step of it: train() moves to another
\* position unless it has returned or raised.
Positions ==
    {"prepare", "epoch", "batch", "zero_grad", "forward", "loss", "backward",
     "step", "accumulate", "train_acc", "test_acc", "log", "done", "raised"}
TrainStep == pc \in Positions \ {"done", "raised"} /\ pc' \in Positions

\* train() runs on one thread that nothing suspends for ever: while it has
\* neither returned nor raised, its next step is eventually taken.
SpecTrainFair == SpecTrain /\ WF_pc(TrainStep)

----------------------------------------------------------------------------
\* Floating point.  A float is [m, e], the value m * 2^e, its significand m
\* kept to MantissaBits bits (an IEEE double keeps 53); the results of the
\* operations are rounded to the nearest float, ties to even.

\* n / d rounded to the nearest integer, ties to the even one (n >= 0, d > 0)
RoundHalfEven(n, d) ==
    LET q == n \div d
        r == n % d
    IN  IF 2 * r < d THEN q
        ELSE IF 2 * r > d THEN q + 1
        ELSE IF q % 2 = 0 THEN q ELSE q + 1

\* number of binary digits of n > 0
RECURSIVE BitLen(_)
BitLen(n) == IF n <= 1 THEN 1 ELSE 1 + BitLen(n \div 2)

\* the least s >= from with  n * 2^s >= d * 2^(MantissaBits - 1)
RECURSIVE Normalize(_, _, _)
Normalize(n, d, from) ==
    IF n * (2 ^ from) >= d * (2 ^ (MantissaBits - 1))
    THEN from
    ELSE Normalize(n, d, from + 1)

\* the float nearest to n / d, for integers n, d > 0 with n / d < 2^MantissaBits
FloatDiv(n, d) ==
    LET s == Normalize(n, d, 0)
    IN  [m |-> RoundHalfEven(n * (2 ^ s), d), e |-> -s]

\* the float nearest to i * x, for an integer i > 0
FloatMul(i, x) ==
    LET prod == i * x.m
        k == BitLen(prod) - MantissaBits
    IN  IF k <= 0
        THEN [m |-> prod, e |-> x.e]
        ELSE [m |-> RoundHalfEven(prod, 2 ^ k), e |-> x.e + k]

\* A faulty conversion to a length: int(x), which truncates.
IntTruncate(x) ==
    IF x.e >= 0 THEN x.m * (2 ^ x.e) ELSE x.m \div (2 ^ (-x.e))

\* int(round(x)): Python 3 rounds to the nearest integer, ties to even.
IntRound(x) ==
    IF x.e >= 0 THEN x.m * (2 ^ x.e) ELSE RoundHalfEven(x.m, 2 ^ (-x.e))

----------------------------------------------------------------------------
\* The data pipeline.
\* A gesture sequence x_i, an array of shape (dur, Len(chans)): which example
\* it is (id), its duration, and which channel of the recording each of its
\* columns holds.  A label: which example it is of (id) and its class k.

\* x_i.T[j]: the row of channel j (0-based) of the transposed sequence
ChannelRow(x_i, j) == [chan |-> x_i.chans[j + 1], len |-> x_i.dur]

\* ndimage.zoom(input, zoom, mode='reflect') of a one-dimensional input: the
\* output has int(round(len * zoom)) elements, interpolated from the input.
zoom(input, zoom_factor) ==
    [chan |-> input.chan, len |-> IntRound(FloatMul(input.len, zoom_factor))]

\* numpy.array(rows).T: the rows become the columns; the rows of a
\* rectangular array have one common length.
TransposeRows(id, rows) ==
    [id |-> id, dur |-> rows[1].len, chans |-> [j \in 1..Len(rows) |-> rows[j].chan]]

\* numpy.array([zoom(x_i.T[j], final_length / len(x_i)) for j in range(size(x_i, 1))]).T
resize_sequence(x_i, length) ==
    TransposeRows(x_i.id,
                  [j \in 1..Len(x_i.chans) |->
                      zoom(ChannelRow(x_i, j - 1), FloatDiv(length, x_i.dur))])

\* resize_sequences_length(x_train, x_test, final_length): the two arrays
resize_sequences_length(x_tr, x_te, length) ==
    [x_train |-> [i \in 1..Len(x_tr) |-> resize_sequence(x_tr[i], length)],
     x_test |-> [i \in 1..Len(x_te) |-> resize_sequence(x_te[i], length)]]

\* a[indices] for a permutation indices of the positions of a
Take(a, indices) == [i \in 1..Len(a) |-> a[indices[i]]]

\* A faulty shuffle that draws a permutation of its own for the last array.
shuffle_apart(a, b, c, indices) ==
    <<Take(a, indices), Take(b, indices),
      Take(c, [i \in 1..Len(c) |-> indices[indices[i]]])>>

\* sklearn.utils.shuffle(a, b, c): one permutation, applied to each array
shuffle(a, b, c, indices) == <<Take(a, indices), Take(b, indices), Take(c, indices)>>

\* y - 1 on an integer array, then torch.from_numpy and .type(LongTensor)
MinusOne(y) == [i \in 1..Len(y) |-> [y[i] EXCEPT !.k = y[i].k - 1]]

\* A faulty normalization that leaves the 28-class labels 1-based.
convert_coarse_only(d) ==
    [d EXCEPT !.y_train_14 = MinusOne(d.y_train_14),
              !.y_test_14 = MinusOne(d.y_test_14)]

\* convert_to_pytorch_tensors: the sequences keep their shapes and order,
\* every label array has 1 subtracted elementwise
convert_to_pytorch_tensors(d) ==
    [d EXCEPT !.y_train_14 = MinusOne(d.y_train_14),
              !.y_train_28 = MinusOne(d.y_train_28),
              !.y_test_14 = MinusOne(d.y_test_14),
              !.y_test_28 = MinusOne(d.y_test_28)]

\* the six arrays, all empty
EmptyDataset ==
    [x_train |-> << >>, x_test |-> << >>,
     y_train_14 |-> << >>, y_train_28 |-> << >>,
     y_test_14 |-> << >>, y_test_28 |-> << >>]

\* the recordings a file may hold: duration, 14-class label, 28-class label
Recordings ==
    {[dur |-> 50, k14 |-> 1, k28 |-> 1],
     [dur |-> FinalLength, k14 |-> DefaultClasses, k28 |-> FineClasses],
     [dur |-> 200, k14 |-> DefaultClasses, k28 |-> DefaultClasses]}

RecordingLists == UNION {[1..n -> Recordings] : n \in 0..MaxSplit}

Sequence(split, i, dur, channels) ==
    [id |-> <<split, i>>, dur |-> dur, chans |-> [j \in 1..channels |-> j]]
Label(split, i, k) == [id |-> <<split, i>>, k |-> k]

\* the content of a well-formed file: for each split one sequence, one
\* 14-class label and one 28-class label per recording, at the same position
FileOf(tr, te, channels) ==
    [x_train |-> [i \in 1..Len(tr) |-> Sequence("train", i, tr[i].dur, channels)],
     x_test |-> [i \in 1..Len(te) |-> Sequence("test", i, te[i].dur, channels)],
     y_train_14 |-> [i \in 1..Len(tr) |-> Label("train", i, tr[i].k14)],
     y_train_28 |-> [i \in 1..Len(tr) |-> Label("train", i, tr[i].k28)],
     y_test_14 |-> [i \in 1..Len(te) |-> Label("test", i, te[i].k14)],
     y_test_28 |-> [i \in 1..Len(te) |-> Label("test", i, te[i].k28)]]

\* x_train, ... = load_data()
LoadData ==
    /\ p_pc = "load"
    /\ dataset' = file
    /\ p_pc' = "shuffle"
    /\ UNCHANGED <<file, final_length, batch_vars, forward_vars, train_vars>>

\* shuffle_dataset: one shuffle() per split; shuffle() raises when the
\* arrays it is given differ in length
ShuffleDataset ==
    /\ p_pc = "shuffle"
    /\ IF \/ Len(dataset.y_train_14) # Len(dataset.x_train)
          \/ Len(dataset.y_train_28) # Len(dataset.x_train)
          \/ Len(dataset.y_test_14) # Len(dataset.x_test)
          \/ Len(dataset.y_test_28) # Len(dataset.x_test)
       THEN /\ p_pc' = "raised"
            /\ UNCHANGED dataset
       ELSE \E tr \in Permutations(1..Len(dataset.x_train)),
               te \in Permutations(1..Len(dataset.x_test)) :
              \E s_tr \in {shuffle(dataset.x_train, dataset.y_train_14,
                                   dataset.y_train_28, tr)},
                 s_te \in {shuffle(dataset.x_test, dataset.y_test_14,
                                   dataset.y_test_28, te)} :
                /\ dataset' = [x_train |-> s_tr[1], x_test |-> s_te[1],
                               y_train_14 |-> s_tr[2], y_train_28 |-> s_tr[3],
                               y_test_14 |-> s_te[2], y_test_28 |-> s_te[3]]
                /\ p_pc' = "resize"
    /\ UNCHANGED <<file, final_length, batch_vars, forward_vars, train_vars>>

\* resize_sequences_length(x_train, x_test, final_length)
ResizeSequencesLength ==
    /\ p_pc = "resize"
    /\ \E r \in {resize_sequences_length(dataset.x_train, dataset.x_test, final_length)} :
         dataset' = [dataset EXCEPT !.x_train = r.x_train, !.x_test = r.x_test]
    /\ p_pc' = "convert"
    /\ UNCHANGED <<file, final_length, batch_vars, forward_vars, train_vars>>

\* convert_to_pytorch_tensors(x_train, x_test, y_train_14, ...)
ConvertToPytorchTensors ==
    /\ p_pc = "convert"
    /\ dataset' = convert_to_pytorch_tensors(dataset)
    /\ p_pc' = "ready"
    /\ UNCHANGED <<file, final_length, batch_vars, forward_vars, train_vars>>

\* Specification of the pipeline of the notebook: load_data, preprocess_data
\* (shuffle_dataset, then resize_sequences_length with final_length=100),
\* convert_to_pytorch_tensors
InitPipeline ==
    /\ p_pc = "load"
    /\ final_length = FinalLength
    /\ \E tr \in RecordingLists, te \in RecordingLists :
         file = FileOf(tr, te, MaxChannels)
    /\ dataset = EmptyDataset
    /\ BatchIdle /\ ForwardIdle /\ TrainIdle

NextPipeline ==
    \/ LoadData
    \/ ShuffleDataset
    \/ ResizeSequencesLength
    \/ ConvertToPytorchTensors

SpecPipeline == InitPipeline /\ [][NextPipeline]_vars

\* Specification of the calls of resize_sequences_length on sequences of
\* every duration 1..MaxSeqLength, for every final_length 1..MaxFinalLength
InitResize ==
    /\ p_pc = "resize"
    /\ final_length \in 1..MaxFinalLength
    /\ \E t \in 1..MaxSeqLength, c \in 1..MaxChannels :
         file = [EmptyDataset EXCEPT
                    !.x_train = <<Sequence("train", 1, t, c)>>,
                    !.x_test = <<Sequence("test", 1, MaxSeqLength + 1 - t, c)>>,
                    !.y_train_14 = <<Label("train", 1, 1)>>,
                    !.y_train_28 = <<Label("train", 1, 1)>>,
                    !.y_test_14 = <<Label("test", 1, 1)>>,
                    !.y_test_28 = <<Label("test", 1, 1)>>]
    /\ dataset = file
    /\ BatchIdle /\ ForwardIdle /\ TrainIdle

NextResize == ResizeSequencesLength

SpecResize == InitResize /\ [][NextResize]_vars

----------------------------------------------------------------------------
\* Properties of batch()

\* the slices of a list, concatenated in list order
RECURSIVE Concat(_)
Concat(tensor_list) ==
    IF Len(tensor_list) = 0 THEN << >>
    ELSE Head(tensor_list) \o Concat(Tail(tensor_list))

RECURSIVE SumLen(_)
SumLen(tensor_list) ==
    IF Len(tensor_list) = 0 THEN 0
    ELSE Len(Head(tensor_list)) + SumLen(Tail(tensor_list))

CeilDiv(n, d) == (n + d - 1) \div d

\* C1: for every N >= 0 and B >= 1 the slices returned by batch(tensor, B),
\* concatenated in list order, are the input: every row is in exactly one
\* slice, in input order, and the slice sizes sum to N.
C1_BatchPartition ==
    b_pc = "returned" =>
        /\ Concat(b_result) = b_tensor
        /\ SumLen(b_result) = Len(b_tensor)
        /\ \A r \in 1..Len(b_tensor) :
             Cardinality({<<k, j>> \in (1..Len(b_result)) \X (1..b_batch_size) :
                            j <= Len(b_result[k]) /\ b_result[k][j] = b_tensor[r]}) = 1

\* C1 witness: 100 rows split by 32 came back as several slices
C1_Witness ==
    /\ b_pc = "returned"
    /\ Len(b_tensor) = 100 /\ b_batch_size = 32
    /\ Len(b_result) = 4
    /\ Len(b_result[4]) = 4

\* C2: batch(tensor, B) returns exactly ceil(N/B) slices; all but the last
\* have B rows, and the last has N mod B rows, or B when B divides N.
C2_BatchSizes ==
    b_pc = "returned" =>
        LET n == Len(b_tensor)
            bs == b_batch_size
        IN  /\ Len(b_result) = CeilDiv(n, bs)
            /\ \A k \in 1..Len(b_result) :
                 Len(b_result[k]) =
                    IF k < Len(b_result) \/ n % bs = 0 THEN bs ELSE n % bs

----------------------------------------------------------------------------
\* Properties of HandGestureNet.forward()

ForwardEnded == f_pc \in {"returned", "raised"}

\* C7: an input whose duration pools to a length other than 12 makes
\* forward raise, for every batch size; forward never returns an output whose
\* number of rows differs from batch_size.
C7_WrongDurationRaises ==
    ForwardEnded =>
        LET pooled == Sequential(all_residual, <<f_input[1], 1, f_input[2]>>)
        IN  /\ (IsErr(pooled) \/ pooled[3] # PooledLength) => f_pc = "raised"
            /\ f_pc = "returned" => f_result.output[1] = f_input[1]

\* C8: an input whose channel count differs from the network's n_channels
\* makes forward raise before any channel is computed.
C8_WrongChannelsRaise ==
    (ForwardEnded /\ f_input[3] # f_net.n_channels) =>
        /\ f_pc = "raised"
        /\ f_result.done = 0

\* C9: for an input of shape (batch_size, 100, n_channels), batch_size >= 1,
\* the three branches of a channel end at length 12 with 4, 4 and 1 feature
\* maps, the flattened vector has 9 * n_channels * 12 values per example and
\* the output has shape (batch_size, n_classes).
C9_ReferenceShapes ==
    (/\ ForwardEnded
     /\ f_input[1] >= 1
     /\ f_input[2] = FinalLength
     /\ f_input[3] = f_net.n_channels) =>
        LET b == f_input[1]
            br == Branches(<<b, 1, FinalLength>>)
        IN  /\ br.high = <<b, 4, 12>>
            /\ br.low = <<b, 4, 12>>
            /\ br.ap_residual = <<b, 1, 12>>
            /\ br.output_channel = <<b, 9, 12>>
            /\ f_pc = "returned"
            /\ f_result.done = f_net.n_channels
            /\ f_result.cat = <<b, 9 * f_net.n_channels, 12>>
            /\ f_result.flat = <<b, 9 * f_net.n_channels * 12>>
            /\ f_result.output = <<b, f_net.n_classes>>

\* C9 witness: a 14-class network of three channels returned for a batch of
\* two gestures of duration 100
C9_Witness ==
    /\ f_pc = "returned"
    /\ f_net = [n_channels |-> 3, n_classes |-> DefaultClasses]
    /\ f_input = <<2, FinalLength, 3>>
    /\ f_result.flat = <<2, 324>>
    /\ f_result.output = <<2, DefaultClasses>>

----------------------------------------------------------------------------
\* Properties of train()

\* the steps of one batch, in the order of the loop body
BatchOps == <<"zero_grad", "forward", "loss", "backward", "step", "accumulate">>
IsBatchOp(e) == \E k \in 1..Len(BatchOps) : e.op = BatchOps[k]
IsNonFiniteLoss(e) == e.op = "loss" /\ ~e.fin
\* the number of mini-batches of an epoch
NumBatches == Len(x_train_batches)
Prepared == pc \notin {"idle", "prepare"}
InBatch == pc \in {"zero_grad", "forward", "loss", "backward", "step", "accumulate"}

\* C3: the data batches and the label batches of a split have the same
\* length, batch i of both covers the same rows of the split, and every
\* (sequence, label) pair the loss sees is a pair of the original split.
C3_BatchesAligned ==
    Prepared =>
        /\ Len(x_train_batches) = Len(y_train_batches)
        /\ \A i \in 1..Len(x_train_batches) :
             /\ Len(x_train_batches[i]) = Len(y_train_batches[i])
             /\ \A j \in 1..Len(x_train_batches[i]) :
                  /\ x_train_batches[i][j] = x_train[(i - 1) * DefaultBatchSize + j]
                  /\ y_train_batches[i][j] = y_train[(i - 1) * DefaultBatchSize + j]
        /\ pc \in {"backward", "step", "accumulate"} =>
             /\ Len(x_train_batch) = Len(y_train_batch)
             /\ \A j \in 1..Len(x_train_batch) :
                  \E r \in 1..Len(x_train) :
                     x_train_batch[j] = x_train[r] /\ y_train_batch[j] = y_train[r]

\* C3 witness: the loss was computed on the third, one-row batch of 65 rows
C3_Witness ==
    /\ pc = "backward"
    /\ idx_batch = 2
    /\ Len(x_train) = 65
    /\ x_train_batch = <<Row("seq", "train", 65)>>
    /\ y_train_batch = <<Row("label", "train", 65)>>

\* C4: in every epoch, for every batch, train() performs zero_grad, forward,
\* loss, backward, optimizer step, accumulate in this order, each once, and
\* finishes them before the next batch; every optimizer step applies the
\* gradient of exactly the batch whose zero_grad, forward and backward
\* immediately precede it.
C4_BatchStepOrder ==
    Prepared =>
        LET ops == SelectSeq(trace, IsBatchOp)
            first(j) == j - ((j - 1) % 6)
        IN  /\ \A j \in 1..Len(ops) :
                 /\ ops[j].op = BatchOps[((j - 1) % 6) + 1]
                 /\ ops[j].ep = ops[first(j)].ep
                 /\ ops[j].idx_batch = ops[first(j)].idx_batch
                 /\ ops[j].ep * NumBatches + ops[j].idx_batch = (j - 1) \div 6
                 /\ ops[j].idx_batch < NumBatches
            /\ \A k \in 1..Len(params) :
                 /\ params[k] = << [ep |-> (k - 1) \div NumBatches,
                                    idx_batch |-> (k - 1) % NumBatches,
                                    split |-> "train"] >>
                 /\ Len(ops) >= 6 * (k - 1) + 5
            /\ Len(params) = Len(ops) \div 6 + (IF Len(ops) % 6 = 5 THEN 1 ELSE 0)
            /\ InBatch => Len(ops) % 6 =
                 (CHOOSE k \in 1..6 : BatchOps[k] = pc) - 1
            /\ ~InBatch /\ pc # "raised" => Len(ops) % 6 = 0

\* C4 witness: two epochs of three batches ran to the end
C4_Witness ==
    /\ pc = "done"
    /\ num_epochs = 2
    /\ NumBatches = 3
    /\ Len(SelectSeq(trace, IsBatchOp)) = 36

\* C5: every forward pass that feeds an optimizer step runs in training
\* mode, every forward pass of an accuracy computation runs in evaluation
\* mode; the model leaves training mode only after the last batch of the
\* epoch, and the training accuracy is computed before the test accuracy.
C5_Modes ==
    /\ \A j \in 1..Len(trace) :
         /\ trace[j].op = "forward" => trace[j].training
         /\ trace[j].op = "get_accuracy" =>
              /\ ~trace[j].training
              /\ j > 1
              /\ trace[j].split = "train" =>
                   /\ trace[j - 1].op = "accumulate"
                   /\ trace[j - 1].ep = trace[j].ep
                   /\ trace[j - 1].idx_batch = NumBatches - 1
              /\ trace[j].split = "test" =>
                   /\ trace[j - 1].op = "get_accuracy"
                   /\ trace[j - 1].split = "train"
                   /\ trace[j - 1].ep = trace[j].ep
    /\ (pc = "batch" \/ InBatch) => training
    /\ pc \in {"test_acc", "log"} => ~training

\* C5 witness: the forward pass of the second epoch's first batch has run,
\* after the first epoch's accuracy computations left the model in
\* evaluation mode
C5_Witness ==
    /\ pc = "loss"
    /\ ep = 1
    /\ training
    /\ \E j \in 1..Len(trace) : trace[j].op = "get_accuracy" /\ trace[j].split = "test"

\* C6: the parameters are updated exactly once per processed batch,
\* num_epochs * number-of-batches times in a complete run, and by nothing
\* else: the accuracy computations and the logging change neither the
\* parameters nor the gradients.
C6_UpdatesOncePerBatch ==
    /\ [](Prepared /\ pc # "raised" =>
            Len(params) = ep * NumBatches
                          + (IF pc \in {"epoch", "done"} THEN 0 ELSE idx_batch)
                          + (IF pc = "accumulate" THEN 1 ELSE 0))
    /\ [](pc = "done" => Len(params) = num_epochs * NumBatches)
    /\ [][pc # "step" => params' = params]_vars
    /\ [][pc = "step" => Len(params') = Len(params) + 1]_vars
    /\ [][(pc \in {"batch", "train_acc", "test_acc", "log", "epoch"})
            => (grad' = grad /\ params' = params)]_vars

\* C6 witness: both accuracies of the second epoch were computed after four
\* updates, with the last batch's gradient still in place
C6_Witness ==
    /\ pc = "log"
    /\ ep = 1
    /\ NumBatches = 2
    /\ Len(params) = 4
    /\ grad = <<[ep |-> 1, idx_batch |-> 1, split |-> "train"]>>

\* the operations of a run of train() that no call raises in, for num_epochs
\* epochs of nb batches
EpochOps(e, nb) ==
    << <<"epoch", e, -1>> >>
    \o [k \in 1..(6 * nb) |-> <<BatchOps[((k - 1) % 6) + 1], e, (k - 1) \div 6>>]
    \o << <<"get_accuracy", e, -1>>, <<"get_accuracy", e, -1>>, <<"log", e, -1>> >>

RECURSIVE RunOps(_, _)
RunOps(epochs, nb) ==
    IF epochs = 0 THEN << >> ELSE RunOps(epochs - 1, nb) \o EpochOps(epochs - 1, nb)

OpKey(e) == <<e.op, e.ep, IF IsBatchOp(e) THEN e.idx_batch ELSE -1>>

\* C10: a non-finite batch loss neither stops train() nor makes it skip or
\* retry: the backward pass, the optimizer step and the accumulation of that
\* batch follow, the epoch total becomes non-finite, and the run performs
\* the same operations as a run whose losses are all finite.
C10_NonFiniteLossGoesOn ==
    (Prepared /\ \E j \in 1..Len(trace) : IsNonFiniteLoss(trace[j])) =>
        LET expected == RunOps(num_epochs, NumBatches)
        IN  /\ Len(trace) <= Len(expected)
            /\ \A j \in 1..Len(trace) : OpKey(trace[j]) = expected[j]
            /\ pc = "done" =>
                 /\ Len(trace) = Len(expected)
                 /\ Len(params) = num_epochs * NumBatches
                 /\ Len(log) = num_epochs
            /\ \A j \in 1..Len(trace) :
                 (IsNonFiniteLoss(trace[j]) /\ Len(trace) = j) => pc = "backward"
            /\ \A j \in 1..Len(trace) :
                 (/\ IsNonFiniteLoss(trace[j])
                  /\ trace[j].ep = ep
                  /\ pc \in {"batch", "zero_grad", "forward", "loss", "backward",
                             "step", "train_acc", "test_acc", "log"}
                  /\ (trace[j].idx_batch < idx_batch)) => ~current_loss.fin
            /\ \A k \in 1..Len(log) :
                 (\E j \in 1..Len(trace) :
                     IsNonFiniteLoss(trace[j]) /\ trace[j].ep = k - 1)
                 => ~log[k].loss.fin

\* C10 witness: a complete run of two epochs of three batches whose very
\* first loss was not finite
C10_Witness ==
    /\ pc = "done"
    /\ num_epochs = 2
    /\ NumBatches = 3
    /\ Len(params) = 6
    /\ \E j \in 1..Len(trace) :
         IsNonFiniteLoss(trace[j]) /\ trace[j].ep = 0 /\ trace[j].idx_batch = 0
    /\ log[2].loss.fin

----------------------------------------------------------------------------
\* Properties of the data pipeline

LabelArrays == {"y_train_14", "y_train_28", "y_test_14", "y_test_28"}
Ids(a) == [i \in 1..Len(a) |-> a[i].id]
Ks(a) == [i \in 1..Len(a) |-> a[i].k]
\* the raw label, in the file, of the example a label belongs to
RawLabel(name, id) == (CHOOSE j \in 1..Len(file[name]) : file[name][j].id = id)

\* C11: convert_to_pytorch_tensors maps every raw label k of the four label
\* arrays to k - 1 at the same position: the arrays keep their lengths and
\* their order, raw labels 1..14 become 0..13 and raw labels 1..28 become
\* 0..27 (1 -> 0, 14 -> 13, 28 -> 27).
C11_LabelsMinusOne ==
    /\ [][(p_pc = "convert" /\ p_pc' = "ready") =>
            \A name \in LabelArrays :
               /\ Len(dataset'[name]) = Len(dataset[name])
               /\ Ids(dataset'[name]) = Ids(dataset[name])
               /\ \A i \in 1..Len(dataset[name]) :
                    dataset'[name][i].k = dataset[name][i].k - 1]_vars
    /\ [](p_pc = "ready" =>
            /\ \A name \in LabelArrays :
                 /\ Len(dataset[name]) = Len(file[name])
                 /\ \A i \in 1..Len(dataset[name]) :
                      LET raw == file[name][RawLabel(name, dataset[name][i].id)].k
                      IN  /\ dataset[name][i].k = raw - 1
                          /\ raw = 1 => dataset[name][i].k = 0
                          /\ raw = 14 => dataset[name][i].k = 13
                          /\ raw = 28 => dataset[name][i].k = 27
            /\ \A name \in {"y_train_14", "y_test_14"} :
                 \A i \in 1..Len(dataset[name]) : dataset[name][i].k \in 0..13
            /\ \A name \in {"y_train_28", "y_test_28"} :
                 \A i \in 1..Len(dataset[name]) : dataset[name][i].k \in 0..27)

\* C11 witness: the converted arrays of a file whose raw labels include 1, 14
\* and 28: the training labels are <<0, 13>> and <<0, 27>> in some order
C11_Witness ==
    /\ p_pc = "ready"
    /\ Len(dataset.y_train_14) = 2
    /\ {dataset.y_train_14[i].k : i \in 1..2} = {0, 13}
    /\ {dataset.y_train_28[i].k : i \in 1..2} = {0, 27}
    /\ Len(dataset.y_test_28) = 1 /\ dataset.y_test_28[1].k = 13

Loaded == p_pc \in {"shuffle", "resize", "convert", "ready"}

\* the arrays of one split are aligned, and hold the examples of that split
\* of the file, each once, with their labels
SplitAligned(x, y_14, y_28, fx, fy_14, fy_28, off) ==
    /\ Len(y_14) = Len(x) /\ Len(y_28) = Len(x) /\ Len(x) = Len(fx)
    /\ Ids(y_14) = Ids(x) /\ Ids(y_28) = Ids(x)
    /\ \E indices \in Permutations(1..Len(fx)) :
         /\ Ids(x) = Ids(Take(fx, indices))
         /\ [i \in 1..Len(x) |-> x[i].chans] = [i \in 1..Len(x) |-> fx[indices[i]].chans]
         /\ Ks(y_14) = [i \in 1..Len(x) |-> fy_14[indices[i]].k - off]
         /\ Ks(y_28) = [i \in 1..Len(x) |-> fy_28[indices[i]].k - off]

\* C12: after every prefix of load_data, shuffle_dataset,
\* resize_sequences_length, convert_to_pytorch_tensors each split has its
\* sequences and its two label arrays at equal length and in matching order:
\* they are one permutation of the split's examples in the file, and the
\* steps after the shuffle do not reorder them.
C12_SplitsAligned ==
    /\ [](Loaded =>
            LET off == IF p_pc = "ready" THEN 1 ELSE 0
            IN  /\ SplitAligned(dataset.x_train, dataset.y_train_14, dataset.y_train_28,
                                file.x_train, file.y_train_14, file.y_train_28, off)
                /\ SplitAligned(dataset.x_test, dataset.y_test_14, dataset.y_test_28,
                                file.x_test, file.y_test_14, file.y_test_28, off))
    /\ [][(p_pc \in {"resize", "convert"}) =>
            \A name \in LabelArrays \cup {"x_train", "x_test"} :
               Ids(dataset'[name]) = Ids(dataset[name])]_vars

\* C12 witness: the end of a pipeline whose shuffle reversed the two training
\* examples and left the two test examples in place
C12_Witness ==
    /\ p_pc = "ready"
    /\ Ids(dataset.x_train) = << <<"train", 2>>, <<"train", 1>> >>
    /\ Ids(dataset.y_train_28) = << <<"train", 2>>, <<"train", 1>> >>
    /\ Ids(dataset.x_test) = << <<"test", 1>>, <<"test", 2>> >>
    /\ file.y_train_14[1].k # file.y_train_14[2].k

Resized == p_pc \in {"convert", "ready"}

\* C13: resize_sequences_length turns every sequence of shape (T, C), T >= 1,
\* into a sequence of shape (final_length, C): int(round(T * (final_length /
\* T))) is final_length whatever T is, and the channels are those of the
\* input, in its order.
C13_ResizedShape ==
    Resized =>
        \A name \in {"x_train", "x_test"} :
           /\ Len(dataset[name]) = Len(file[name])
           /\ \A i \in 1..Len(dataset[name]) :
                /\ dataset[name][i].dur = final_length
                /\ dataset[name][i].chans = file[name][i].chans
                /\ dataset[name][i].id = file[name][i].id

\* C13 witness: a sequence of three channels resized to 100 whose product
\* T * (final_length / T) falls short of 100, so that only the rounding makes
\* its length 100
C13_Witness ==
    /\ Resized
    /\ final_length = FinalLength
    /\ Len(file.x_train[1].chans) = 3
    /\ IntTruncate(FloatMul(file.x_train[1].dur,
                            FloatDiv(final_length, file.x_train[1].dur))) < FinalLength
    /\ dataset.x_train[1].dur = FinalLength
    /\ dataset.x_train[1].chans = <<1, 2, 3>>

----------------------------------------------------------------------------
\* Properties of the epoch records

\* the float sum of a list of events' losses, added in order to 0.0
RECURSIVE SumLosses(_)
SumLosses(events) ==
    IF Len(events) = 0
    THEN Finite(0)
    ELSE Add(SumLosses(SubSeq(events, 1, Len(events) - 1)), events[Len(events)].loss)

\* the events of one kind of one epoch, in order
EventsOf(op, epoch) == SelectSeq(trace, LAMBDA e : e.op = op /\ e.ep = epoch)

\* C14: the loss logged for an epoch is the sum of the losses of exactly the
\* batches of that epoch: the running total starts from 0 in every epoch, has
\* each batch loss added once, carries nothing over from an earlier epoch,
\* and the record is emitted only after the training accuracy and the test
\* accuracy of that epoch were computed.
C14_EpochLoss ==
    /\ \A k \in 1..Len(log) :
         /\ log[k].ep = k
         /\ Len(EventsOf("loss", k - 1)) = NumBatches
         /\ \A i \in 1..NumBatches : EventsOf("loss", k - 1)[i].idx_batch = i - 1
         /\ log[k].loss = SumLosses(EventsOf("loss", k - 1))
         /\ log[k].train_acc = [split |-> "train", params |-> k * NumBatches,
                                training |-> FALSE]
         /\ log[k].test_acc = [split |-> "test", params |-> k * NumBatches,
                               training |-> FALSE]
    /\ (pc \in {"batch", "zero_grad", "forward", "loss", "backward", "step",
                "accumulate", "train_acc", "test_acc", "log"}) =>
         current_loss = SumLosses(EventsOf("accumulate", ep))
    /\ \A j \in 1..Len(trace) :
         trace[j].op = "log" =>
            /\ j >= 3
            /\ trace[j - 2].op = "get_accuracy" /\ trace[j - 2].split = "train"
            /\ trace[j - 2].ep = trace[j].ep
            /\ trace[j - 1].op = "get_accuracy" /\ trace[j - 1].split = "test"
            /\ trace[j - 1].ep = trace[j].ep
    /\ Len(SelectSeq(trace, LAMBDA e : e.op = "log")) = Len(log)

\* C14 witness: a complete run of two epochs of three batches with finite
\* losses 1, 2, 4 and then 8, 16, 32: the records hold 7 and 56
C14_Witness ==
    /\ pc = "done"
    /\ NumBatches = 3
    /\ Len(log) = 2
    /\ log[1].loss = Finite(7)
    /\ log[2].loss = Finite(56)

----------------------------------------------------------------------------
\* Termination of train()

\* train() has returned after the complete run: every epoch with every batch
\* index once, in increasing order, and one record per epoch, in epoch order
Completed ==
    /\ pc = "done"
    /\ Len(trace) = Len(RunOps(num_epochs, NumBatches))
    /\ \A j \in 1..Len(trace) : OpKey(trace[j]) = RunOps(num_epochs, NumBatches)[j]
    /\ Len(EventsOf("epoch", num_epochs)) = 0
    /\ Len(log) = num_epochs
    /\ \A k \in 1..Len(log) : log[k].ep = k

\* C15: for every num_epochs >= 0 and every dataset size N >= 0, with the
\* default batch size, train() terminates: batch() returns, every epoch
\* processes every batch index exactly once in increasing order without
\* retry, exactly num_epochs epochs are run and exactly num_epochs records
\* are emitted, one per epoch in increasing epoch order.
C15_TrainTerminates == <>Completed

\* The part of C15 that the code satisfies: from a training split and a test
\* split of at least one example each, or with num_epochs = 0.
TrainTerminatesNonEmpty ==
    ((Len(x_train) >= 1 /\ Len(x_test) >= 1) \/ num_epochs = 0) => <>Completed

\* A complete run of two epochs of three batches.
TrainTerminatesReached == Completed /\ num_epochs = 2 /\ NumBatches = 3

\* A run on an empty training split ends in the exception of its first
\* forward pass, before any record.
EmptyTrainRaises ==
    (Len(x_train) = 0 /\ num_epochs >= 1) =>
        <>[](pc = "raised" /\ Len(log) = 0 /\ Len(params) = 0
             /\ trace[Len(trace)].op = "forward" /\ trace[Len(trace)].ep = 0)

----------------------------------------------------------------------------
\* Properties of the mode of the model and of the use of the test data

\* C16: get_accuracy puts the model into evaluation mode and does not put it
\* back: the model is in evaluation mode after every call of get_accuracy,
\* hence when train() returns with num_epochs >= 1; with num_epochs = 0 no
\* step of train() changes the mode, which stays the one before the call.
C16_EvalModeAfter ==
    /\ [][(pc \in {"train_acc", "test_acc"} /\ pc' # pc) => ~training']_vars
    /\ [](pc \in {"test_acc", "log"} => ~training)
    /\ []((pc = "done" /\ num_epochs >= 1) => ~training)
    /\ [][num_epochs = 0 => training' = training]_vars

\* C16 witness: train() has returned after two epochs, each of which began in
\* training mode, and the model is in evaluation mode
C16_Witness ==
    /\ pc = "done"
    /\ num_epochs = 2
    /\ ~training
    /\ Len(EventsOf("epoch", 1)) = 1 /\ EventsOf("epoch", 1)[1].training
    /\ Len(EventsOf("get_accuracy", 1)) = 2

\* C17: the test sequences and labels never reach the parameters: every
\* gradient that a backward pass leaves and that an optimizer step applies
\* comes from rows of the training split only, the only operation that reads
\* rows of the test split is get_accuracy, in evaluation mode and with
\* autograd disabled, and it changes neither the gradients nor the
\* parameters.
C17_TestDataApart ==
    /\ [](/\ \A k \in 1..Len(params) :
              \A i \in 1..Len(params[k]) : params[k][i].split = "train"
          /\ \A i \in 1..Len(grad) : grad[i].split \in {"train", "stale"}
          /\ \A j \in 1..Len(trace) :
               /\ trace[j].op \in {"backward", "step"} => trace[j].split = "train"
               /\ trace[j].split # "mixed"
               /\ trace[j].split = "test" =>
                    /\ trace[j].op = "get_accuracy"
                    /\ ~trace[j].training
                    /\ ~trace[j].grad_enabled)
    /\ [][(pc = "test_acc") => (params' = params /\ grad' = grad)]_vars
    /\ [][(params' # params \/ grad' # grad) =>
            (\/ pc = "zero_grad"
             \/ /\ pc \in {"backward", "step"}
                /\ SplitOf(x_train_batch \o y_train_batch) = "train")]_vars

\* C17 witness: a complete run of two epochs of three batches with a test
\* split that get_accuracy read twice: six updates, all from training rows
C17_Witness ==
    /\ pc = "done"
    /\ num_epochs = 2
    /\ Len(x_test) = 1
    /\ Len(params) = 6
    /\ params[6] = <<[ep |-> 1, idx_batch |-> 2, split |-> "train"]>>
    /\ Len(SelectSeq(trace, LAMBDA e : e.op = "get_accuracy" /\ e.split = "test")) = 2
====
